---- MODULE Spec2Model ----
(***************************************************************************)
(* Header block plugin for Editor.js: the data record (_data), the live    *)
(* heading element (_element), the settings buttons and the operations the *)
(* host drives (constructor, render, renderSettings, setLevel, setAlign,   *)
(* merge, validate, save, onPaste), in the two variants the repository     *)
(* holds:                                                                  *)
(*   "index"     src/src/index.js       levels 1-3, with alignment         *)
(*   "part_000"  src/unnamed/part_000   levels 2-4, without alignment      *)
(*                                                                         *)
(* JavaScript values are records [t, n, s]: t is the typeof tag, n the     *)
(* value of a small integer number, s the tokens of a string.  A string is *)
(* a sequence of tokens; a token is one character, or one of the runs      *)
(* "&amp;", "undefined", "null", "NaN" and the alignment words ("left",    *)
(* "center", ...), none of which holds a digit, a sign or white space.  A  *)
(* number whose s is <<"NaN">> is NaN; a number whose s is a digit         *)
(* sequence is an integer too large for n, kept by its decimal digits.     *)
(* A data argument is a record [kind, text, level, align]: kind is         *)
(* "object" for a record (a missing field is Undefined) and "undefined",   *)
(* "null", "number" or "string" for a value that is not a record.          *)
(***************************************************************************)
EXTENDS Integers, Sequences, FiniteSets

VARIABLES
    variant,          \* which source file the block is built from
    constructed,      \* the constructor returned (it did not throw)
    _CSS,             \* this._CSS.align (index.js only)
    _data,            \* this._data
    _element,         \* this._element: [id, tag, innerHTML, textAlign]
    parent,           \* the host container's child nodes, by id
    settingsButtons,  \* this.settingsButtons
    last              \* the last call: its name, arguments and result

vars == <<variant, constructed, _CSS, _data, _element, parent,
          settingsButtons, last>>

(***************************************************************************)
(* JavaScript values                                                       *)
(***************************************************************************)
Undefined == [t |-> "undefined", n |-> 0, s |-> <<>>]

Null == [t |-> "object", n |-> 0, s |-> <<"null">>]

NaN == [t |-> "number", n |-> 0, s |-> <<"NaN">>]

Num(k) == [t |-> "number", n |-> k, s |-> <<>>]

BigNum(digits) == [t |-> "number", n |-> 0, s |-> digits]

Str(q) == [t |-> "string", n |-> 0, s |-> q]

IsNaN(v) == v.t = "number" /\ v.s = <<"NaN">>

IsBig(v) == v.t = "number" /\ v.s # <<>> /\ v.s # <<"NaN">>

\* ToBoolean: undefined, null, NaN, 0 and "" are falsy.
Truthy(v) ==
    CASE v.t = "undefined" -> FALSE
      [] v.t = "object"    -> FALSE
      [] v.t = "number"    -> IF IsNaN(v) THEN FALSE
                              ELSE IF IsBig(v) THEN TRUE ELSE v.n # 0
      [] v.t = "string"    -> v.s # <<>>

\* a || b
Or(a, b) == IF Truthy(a) THEN a ELSE b

Digits == <<"0", "1", "2", "3", "4", "5", "6", "7", "8", "9">>

IsDigit(c) == \E i \in 1..10 : Digits[i] = c

DigitVal(c) == (CHOOSE i \in 1..10 : Digits[i] = c) - 1

IsSpace(c) == c = " "

RECURSIVE NatToTokens(_)
NatToTokens(k) ==
    IF k < 10 THEN <<Digits[k + 1]>>
    ELSE NatToTokens(k \div 10) \o <<Digits[(k % 10) + 1]>>

RECURSIVE StripTrailingZeros(_)
StripTrailingZeros(q) ==
    IF q # <<>> /\ q[Len(q)] = "0"
    THEN StripTrailingZeros(SubSeq(q, 1, Len(q) - 1))
    ELSE q

\* Number::toString of an integer kept by its digits d1 d2 ... dk (an optional
\* "-" first): decimal up to 21 digits, d1[.d2...]e+(k-1) from 22 digits on.
BigToString(q) ==
    LET neg  == Head(q) = "-"
        ds   == IF neg THEN Tail(q) ELSE q
        frac == StripTrailingZeros(Tail(ds))
        exp  == <<Head(ds)>> \o (IF frac = <<>> THEN <<>> ELSE <<".">> \o frac)
                    \o <<"e", "+">> \o NatToTokens(Len(ds) - 1)
    IN  IF Len(ds) <= 21 THEN q
        ELSE (IF neg THEN <<"-">> ELSE <<>>) \o exp

\* ToString
ToString(v) ==
    CASE v.t = "undefined" -> <<"undefined">>
      [] v.t = "object"    -> <<"null">>
      [] v.t = "string"    -> v.s
      [] v.t = "number"    ->
            IF IsNaN(v) THEN <<"NaN">>
            ELSE IF IsBig(v) THEN BigToString(v.s)
            ELSE IF v.n < 0 THEN <<"-">> \o NatToTokens(-v.n)
            ELSE NatToTokens(v.n)

RECURSIVE SkipSpaces(_)
SkipSpaces(q) ==
    IF q # <<>> /\ IsSpace(Head(q)) THEN SkipSpaces(Tail(q)) ELSE q

RECURSIVE TakeDigits(_)
TakeDigits(q) ==
    IF q # <<>> /\ IsDigit(Head(q)) THEN <<Head(q)>> \o TakeDigits(Tail(q))
    ELSE <<>>

RECURSIVE StripLeadingZeros(_)
StripLeadingZeros(q) ==
    IF Len(q) > 1 /\ Head(q) = "0" THEN StripLeadingZeros(Tail(q)) ELSE q

RECURSIVE DigitsValue(_)
DigitsValue(q) ==
    IF q = <<>> THEN 0
    ELSE 10 * DigitsValue(SubSeq(q, 1, Len(q) - 1)) + DigitVal(q[Len(q)])

\* parseInt(v), radix 10: ToString, leading white space skipped, an optional
\* sign, then the longest run of digits; NaN when there is none.
parseInt(v) ==
    LET str  == SkipSpaces(ToString(v))
        neg  == str # <<>> /\ Head(str) = "-"
        body == IF str # <<>> /\ Head(str) \in {"-", "+"} THEN Tail(str) ELSE str
        ds   == StripLeadingZeros(TakeDigits(body))
    IN  IF ds = <<>> THEN NaN
        ELSE IF Len(ds) <= 9
             THEN Num(IF neg THEN -DigitsValue(ds) ELSE DigitsValue(ds))
             ELSE BigNum((IF neg THEN <<"-">> ELSE <<>>) \o ds)

\* String.prototype.trim
RECURSIVE TrimEnd(_)
TrimEnd(q) ==
    IF q # <<>> /\ IsSpace(q[Len(q)]) THEN TrimEnd(SubSeq(q, 1, Len(q) - 1))
    ELSE q

trim(q) == TrimEnd(SkipSpaces(q))

\* a === b
StrictEq(a, b) == a = b /\ ~IsNaN(a)

(***************************************************************************)
(* The DOM: innerHTML and style.textAlign                                  *)
(***************************************************************************)
\* Assigning innerHTML parses the markup and reading it serializes the
\* nodes: a bare "&" in text comes back as "&amp;"; the other tokens of the
\* model come back as written.
RECURSIVE innerHTML(_)
innerHTML(q) ==
    IF q = <<>> THEN <<>>
    ELSE <<IF Head(q) = "&" THEN "&amp;" ELSE Head(q)>> \o innerHTML(Tail(q))

TextAlignKeywords == {"left", "right", "center", "justify", "start", "end"}

\* element.style.textAlign = v: null clears the property, a text-align
\* keyword sets it, any other value is dropped and the old value stays.
styleTextAlign(old, v) ==
    LET q == ToString(v)
    IN  IF v = Null \/ q = <<>> THEN ""
        ELSE IF Len(q) = 1 /\ q[1] \in TextAlignKeywords THEN q[1]
        ELSE old

(***************************************************************************)
(* Registries                                                              *)
(***************************************************************************)
HasAlign(v) == v = "index"

levels(v) ==
    IF v = "index"
    THEN << [number |-> 1, tag |-> "H1"],
            [number |-> 2, tag |-> "H2"],
            [number |-> 3, tag |-> "H3"] >>
    ELSE << [number |-> 2, tag |-> "H2"],
            [number |-> 3, tag |-> "H3"],
            [number |-> 4, tag |-> "H4"] >>

align == << [align |-> "left"], [align |-> "center"], [align |-> "right"] >>

\* Mutant: the first entry is the default.
defaultLevel_first(v) == levels(v)[0 + 1]

\* this.levels[1] in index.js, this.levels[2] in part_000 (0-based).
defaultLevel(v) == IF v = "index" THEN levels(v)[1 + 1] ELSE levels(v)[2 + 1]

\* this.align[0]
defaultAlign == align[0 + 1]

LevelNumbers(v) == {Num(levels(v)[i].number) : i \in 1..Len(levels(v))}

AlignIds == {Str(<<align[i].align>>) : i \in 1..Len(align)}

(***************************************************************************)
(* normalizeData                                                           *)
(***************************************************************************)
Obj(text, level, al) ==
    [kind |-> "object", text |-> text, level |-> level, align |-> al]

NotObj(kind) ==
    [kind |-> kind, text |-> Undefined, level |-> Undefined, align |-> Undefined]

\* Reading a property of undefined or null raises a TypeError.
PropertyReadThrows(data) == data.kind \in {"undefined", "null"}

\* typeof data !== 'object' replaces data by {}; typeof null is 'object', so
\* null goes on to data.text.
normalizeDataThrows(data) == data.kind = "null"

normalizeData(v, data) ==
    LET d == IF data.kind # "object" THEN Obj(Undefined, Undefined, Undefined)
             ELSE data
    IN  Obj(Or(d.text, Str(<<>>)),
            Or(parseInt(d.level), Num(defaultLevel(v).number)),
            IF HasAlign(v) THEN Or(d.align, Str(<<defaultAlign.align>>))
            ELSE Undefined)

\* this.levels.find(levelItem => levelItem.number === this._data.level),
\* the default level when none is found.
currentLevel(v, d) ==
    IF \E i \in 1..Len(levels(v)) : StrictEq(Num(levels(v)[i].number), d.level)
    THEN levels(v)[CHOOSE i \in 1..Len(levels(v)) :
                     /\ StrictEq(Num(levels(v)[i].number), d.level)
                     /\ \A j \in 1..(i - 1) :
                            ~StrictEq(Num(levels(v)[j].number), d.level)]
    ELSE defaultLevel(v)

\* Mutant: the lookup never matches.
currentAlign_default(d) == defaultAlign

currentAlign(d) ==
    IF \E i \in 1..Len(align) : StrictEq(Str(<<align[i].align>>), d.align)
    THEN align[CHOOSE i \in 1..Len(align) :
                 /\ StrictEq(Str(<<align[i].align>>), d.align)
                 /\ \A j \in 1..(i - 1) :
                        ~StrictEq(Str(<<align[j].align>>), d.align)]
    ELSE defaultAlign

(***************************************************************************)
(* Bounds and inputs                                                       *)
(***************************************************************************)
\* Settings panels rendered at most.
MaxPanels == 1

\* merge is called while the joined text has at most this many tokens.
MaxTextLen == 2

\* The other block of the host container.
Sibling == 0

\* The digit string "1000000000000000000000" (10^21, 22 digits).
TenToThe21 == [i \in 1..22 |-> IF i = 1 THEN "1" ELSE "0"]

TextValues == {Undefined, Str(<<>>), Str(<<"a">>), Str(<<"a", "&">>)}

LevelValues ==
    {Undefined, Num(0), Num(1), Num(2), Num(3), Num(4), Num(7), Num(999),
     Num(-1), Str(<<"3">>), Str(<<"a">>), Str(TenToThe21)}

AlignValues == {Undefined, Str(<<"center">>), Str(<<"bogus">>)}

\* What the host may hand to the constructor as data.
ConstructorData ==
    {Obj(t, l, a) : t \in TextValues, l \in LevelValues, a \in AlignValues}
        \cup {NotObj(k) : k \in {"undefined", "null", "number", "string"}}

\* Text the user leaves in the element: markup as innerHTML returns it.
UserText == {<<"a">>}

(***************************************************************************)
(* The instance                                                            *)
(***************************************************************************)
\* getTag: a new element for the current level.
getTag(v, d, css, id) ==
    [id        |-> id,
     tag       |-> currentLevel(v, d).tag,
     innerHTML |-> innerHTML(ToString(Or(d.text, Str(<<>>)))),
     textAlign |-> IF HasAlign(v) THEN styleTextAlign("", css) ELSE ""]

\* index.js reads data.align before normalizeData; both read data.text.
constructorThrows(v, data) ==
    \/ HasAlign(v) /\ PropertyReadThrows(data)
    \/ normalizeDataThrows(data)

\* No element (the toolsContent of a call that takes none).
NoElement == [id |-> 0, tag |-> "", innerHTML |-> <<>>, textAlign |-> ""]

NoCall ==
    [op |-> "none", threw |-> FALSE, arg |-> NotObj("undefined"),
     tagName |-> "", ok |-> FALSE, ret |-> NotObj("undefined"),
     toolsContent |-> NoElement]

constructor(v, data) ==
    /\ variant = v
    /\ constructed = ~constructorThrows(v, data)
    /\ _CSS = IF HasAlign(v) /\ constructed
              THEN Or(data.align, Str(<<"left">>)) ELSE Undefined
    /\ _data = IF constructed THEN normalizeData(v, data)
               ELSE NotObj("undefined")
    /\ settingsButtons = <<>>
    /\ _element = IF constructed THEN getTag(v, _data, _CSS, 1)
                  ELSE [id |-> 1, tag |-> "", innerHTML |-> <<>>, textAlign |-> ""]
    /\ parent = <<Sibling>>
    /\ last = [NoCall EXCEPT !.op = "constructor", !.arg = data,
                             !.threw = ~constructed]

Init ==
    \E v \in {"index", "part_000"} : \E data \in ConstructorData :
        constructor(v, data)

\* this._element.parentNode
Attached == \E i \in 1..Len(parent) : parent[i] = _element.id

\* get data: the element's text and the resolved level and align, written
\* into this._data and returned.
getData ==
    Obj(Str(_element.innerHTML),
        Num(currentLevel(variant, _data).number),
        IF HasAlign(variant) THEN Str(<<currentAlign(_data).align>>)
        ELSE _data.align)

\* Mutant: the align is read back from the element passed in.
save_fromElement(toolsContent) ==
    Obj(Str(toolsContent.innerHTML),
        Num(currentLevel(variant, _data).number),
        Str(<<toolsContent.textAlign>>))

\* save(toolsContent)
save(toolsContent) ==
    Obj(Str(toolsContent.innerHTML),
        Num(currentLevel(variant, _data).number),
        IF HasAlign(variant) THEN Str(<<currentAlign(_data).align>>)
        ELSE Undefined)

\* render()
render == _element

Call(op, arg) == [NoCall EXCEPT !.op = op, !.arg = arg]

\* An element id not in use (the replaced element is dropped).
FreshId == IF _element.id = 1 THEN 2 ELSE 1

\* set data: the branch that replaces the element.
Replaces(data) == data.level # Undefined /\ Attached

\* Mutant: the replacement element does not take over the old innerHTML.
setDataElement_noCopy(data) ==
    LET nd        == normalizeData(variant, data)
        tag       == getTag(variant, nd, _CSS, FreshId)
        newHeader == [tag EXCEPT
                        !.textAlign = IF HasAlign(variant)
                                      THEN styleTextAlign(@, data.align) ELSE @]
        el        == IF Replaces(data) THEN newHeader ELSE _element
    IN  IF data.text # Undefined
        THEN [el EXCEPT !.innerHTML = innerHTML(ToString(Or(nd.text, Str(<<>>))))]
        ELSE el

\* The element set data leaves in this._element.
setDataElement(data) ==
    LET nd        == normalizeData(variant, data)
        tag       == getTag(variant, nd, _CSS, FreshId)
        newHeader == [tag EXCEPT
                        !.innerHTML = innerHTML(_element.innerHTML),
                        !.textAlign = IF HasAlign(variant)
                                      THEN styleTextAlign(@, data.align) ELSE @]
        el        == IF Replaces(data) THEN newHeader ELSE _element
    IN  IF data.text # Undefined
        THEN [el EXCEPT !.innerHTML = innerHTML(ToString(Or(nd.text, Str(<<>>))))]
        ELSE el

\* Mutant: the old child is removed and the new one appended.
replaceChild_append(newId, oldId) ==
    SelectSeq(parent, LAMBDA c : c # oldId) \o <<newId>>

\* parentNode.replaceChild(newHeader, this._element)
replaceChild(newId, oldId) ==
    [i \in 1..Len(parent) |-> IF parent[i] = oldId THEN newId ELSE parent[i]]

\* set data
setData(data) ==
    /\ _data' = normalizeData(variant, data)
    /\ _element' = setDataElement(data)
    /\ parent' = IF Replaces(data) THEN replaceChild(FreshId, _element.id)
                 ELSE parent

(***************************************************************************)
(* Settings                                                                *)
(***************************************************************************)
Button(panel, level, al, active) ==
    [panel |-> panel, level |-> level, align |-> al, active |-> active]

Panels == {settingsButtons[i].panel : i \in 1..Len(settingsButtons)}

\* The level buttons of renderSettings, in registry order.
levelButtons(panel) ==
    [i \in 1..Len(levels(variant)) |->
        Button(panel, Str(ToString(Num(levels(variant)[i].number))), Undefined,
               currentLevel(variant, _data).number = levels(variant)[i].number)]

\* The alignment buttons of renderSettings (index.js only).
alignButtons(panel) ==
    IF HasAlign(variant)
    THEN [i \in 1..Len(align) |->
            Button(panel, Undefined, Str(<<align[i].align>>),
                   currentAlign(_data).align = align[i].align)]
    ELSE <<>>

\* The host opens the settings of a block it shows.
renderSettings ==
    /\ constructed
    /\ Attached
    /\ Cardinality(Panels) < MaxPanels
    /\ LET holder == Cardinality(Panels) + 1
       IN  settingsButtons' =
               settingsButtons \o levelButtons(holder) \o alignButtons(holder)
    /\ last' = Call("renderSettings", NotObj("undefined"))
    /\ UNCHANGED <<variant, constructed, _CSS, _data, _element, parent>>

\* Mutant: classList.add in place of toggle with a condition.
toggleLevel_add(button, level) ==
    IF Truthy(button.level) /\ StrictEq(parseInt(button.level), level)
    THEN [button EXCEPT !.active = TRUE]
    ELSE button

\* if (button.dataset.level) button.classList.toggle(active,
\*     parseInt(button.dataset.level) === level)
toggleLevel(button, level) ==
    IF Truthy(button.level)
    THEN [button EXCEPT !.active = StrictEq(parseInt(button.level), level)]
    ELSE button

\* if (button.dataset.align) button.classList.toggle(active,
\*     button.dataset.align === align)
toggleAlign(button, al) ==
    IF Truthy(button.align)
    THEN [button EXCEPT !.active = StrictEq(button.align, al)]
    ELSE button

\* Mutant: the align is left out of the record.
setLevelData_noAlign(level) == Obj(getData.text, level, Undefined)

\* The record setLevel assigns to this.data.
setLevelData(level) ==
    Obj(getData.text, level,
        IF HasAlign(variant) THEN getData.align ELSE Undefined)

setLevel(level) ==
    /\ constructed
    /\ setData(setLevelData(level))
    /\ settingsButtons' =
           [i \in 1..Len(settingsButtons) |-> toggleLevel(settingsButtons[i], level)]
    /\ last' = Call("setLevel", Obj(Undefined, level, Undefined))
    /\ UNCHANGED <<variant, constructed, _CSS>>

\* The record setAlign assigns to this.data.
setAlignData(al) == Obj(getData.text, getData.level, al)

setAlign(al) ==
    /\ constructed
    /\ HasAlign(variant)
    /\ setData(setAlignData(al))
    /\ settingsButtons' =
           [i \in 1..Len(settingsButtons) |-> toggleAlign(settingsButtons[i], al)]
    /\ last' = Call("setAlign", Obj(Undefined, Undefined, al))
    /\ UNCHANGED <<variant, constructed, _CSS>>

(***************************************************************************)
(* merge, onPaste                                                          *)
(***************************************************************************)
\* this.data.text + data.text
mergeText(data) == Str(getData.text.s \o ToString(data.text))

\* Mutant: level and align taken from the other record.
mergeData_other(data) == Obj(mergeText(data), data.level, data.align)

\* newData of merge
mergeData(data) ==
    Obj(mergeText(data), getData.level,
        IF HasAlign(variant) THEN getData.align ELSE Undefined)

merge(data) ==
    /\ constructed
    /\ Len(mergeText(data).s) <= MaxTextLen
    /\ setData(mergeData(data))
    /\ last' = Call("merge", data)
    /\ UNCHANGED <<variant, constructed, _CSS, settingsButtons>>

\* Mutant: the H3 case is missing.
pasteLevel_noH3(v, tagName) ==
    CASE tagName = "H1" /\ v = "index"    -> 1
      [] tagName = "H4" /\ v = "part_000" -> 4
      [] OTHER                             -> 2

\* The switch of onPaste on content.tagName.
pasteLevel(v, tagName) ==
    IF v = "index"
    THEN CASE tagName = "H1" -> 1
           [] tagName = "H3" -> 3
           [] OTHER          -> 2
    ELSE CASE tagName = "H2" -> 2
           [] tagName = "H3" -> 3
           [] tagName = "H4" -> 4
           [] OTHER          -> 2

pasteConfig(v) ==
    IF v = "index" THEN {"H1", "H2", "H3"} ELSE {"H2", "H3", "H4"}

\* Mutant: the paste keeps the block's align.
pasteData_keepAlign(tagName, html) ==
    Obj(html, Num(pasteLevel(variant, tagName)),
        IF HasAlign(variant) THEN getData.align ELSE Undefined)

\* The record onPaste assigns to this.data.
pasteData(tagName, html) ==
    Obj(html, Num(pasteLevel(variant, tagName)),
        IF HasAlign(variant) THEN Str(<<"left">>) ELSE Undefined)

onPaste(tagName, html) ==
    /\ constructed
    /\ setData(pasteData(tagName, html))
    /\ last' = [Call("onPaste", Obj(html, Undefined, Undefined))
                  EXCEPT !.tagName = tagName]
    /\ UNCHANGED <<variant, constructed, _CSS, settingsButtons>>

(***************************************************************************)
(* The host and the user                                                   *)
(***************************************************************************)
\* The host puts the element render() returned into its container.
Attach ==
    /\ constructed
    /\ ~Attached
    /\ parent' = <<render.id>> \o parent
    /\ last' = Call("attach", NotObj("undefined"))
    /\ UNCHANGED <<variant, constructed, _CSS, _data, _element, settingsButtons>>

\* The user types into the contentEditable element.
UserEdit(q) ==
    /\ constructed
    /\ Attached
    /\ q # _element.innerHTML
    /\ _element' = [_element EXCEPT !.innerHTML = q]
    /\ last' = Call("edit", NotObj("undefined"))
    /\ UNCHANGED <<variant, constructed, _CSS, _data, parent, settingsButtons>>

\* The host saves the block: save(toolsContent) with the element it holds.
Save(toolsContent) ==
    /\ constructed
    /\ last' = [Call("save", NotObj("undefined")) EXCEPT
                   !.toolsContent = toolsContent,
                   !.ret = save(toolsContent)]
    /\ UNCHANGED <<variant, constructed, _CSS, _data, _element, parent,
                   settingsButtons>>

\* An element that is not the block's: another tag, text and style.
ForeignElement ==
    [id |-> 9, tag |-> "P", innerHTML |-> <<"x">>, textAlign |-> "right"]

\* Elements handed to save: the one render() returns, and a foreign one.
SaveArgs == {render, ForeignElement}

SetLevelArgs == {Num(2), Num(3), Num(999)}

SetAlignArgs == {Str(<<"left">>), Str(<<"center">>), Str(<<"bogus">>)}

\* Records of another block, as its save returned them.
MergeArgs ==
    {Obj(Str(<<"a">>), Undefined, Undefined),
     Obj(Str(<<"a">>), Num(4), Str(<<"right">>))}

\* Pasted elements: tagName and innerHTML.
PasteArgs ==
    {<<tagName, Str(<<"a">>)>> : tagName \in {"H1", "H2", "H3", "H4", "P"}}
        \cup {<<"H3", Str(<<>>)>>, <<"P", Undefined>>}

Next ==
    \/ renderSettings
    \/ \E level \in SetLevelArgs : setLevel(level)
    \/ \E al \in SetAlignArgs : setAlign(al)
    \/ \E data \in MergeArgs : merge(data)
    \/ \E content \in PasteArgs : onPaste(content[1], content[2])
    \/ Attach
    \/ \E q \in UserText : UserEdit(q)
    \/ \E toolsContent \in SaveArgs : Save(toolsContent)

Spec == Init /\ [][Next]_vars

(***************************************************************************)
(* validate and normalizeData, called on their own                         *)
(***************************************************************************)
\* blockData.text.trim raises a TypeError unless blockData.text is a string.
validateThrows(blockData) ==
    PropertyReadThrows(blockData) \/ blockData.text.t # "string"

\* Mutant: the text is not trimmed.
validate_noTrim(blockData) == blockData.text.s # <<>>

\* blockData.text.trim() !== ''
validate(blockData) == trim(blockData.text.s) # <<>>

Validate(blockData) ==
    /\ constructed
    /\ last' = [Call("validate", blockData) EXCEPT
                   !.threw = validateThrows(blockData),
                   !.ok = IF validateThrows(blockData) THEN FALSE
                          ELSE validate(blockData)]
    /\ UNCHANGED <<variant, constructed, _CSS, _data, _element, parent,
                   settingsButtons>>

CallNormalizeData(data) ==
    /\ constructed
    /\ last' = [Call("normalizeData", data) EXCEPT
                   !.threw = normalizeDataThrows(data),
                   !.ret = IF normalizeDataThrows(data) THEN NotObj("undefined")
                           ELSE normalizeData(variant, data)]
    /\ UNCHANGED <<variant, constructed, _CSS, _data, _element, parent,
                   settingsButtons>>

\* Records handed to validate: what save returned, and records of any shape.
ValidateArgs ==
    {save(render)} \cup
    {Obj(t, la[1], la[2]) :
        t \in {Undefined, Str(<<>>), Str(<<" ">>), Str(<<"a">>),
               Str(<<" ", "a", " ">>), Str(<<" ", " ">>)},
        la \in {<<Undefined, Undefined>>, <<Num(2), Str(<<"left">>)>>,
                <<Num(999), Str(<<"bogus">>)>>}}

FnNext ==
    \/ \E blockData \in ValidateArgs : Validate(blockData)
    \/ \E data \in ConstructorData : CallNormalizeData(data)

\* The block the functions are called on: built from no data, from a record,
\* or from a value that is not a record.
FnInit ==
    \E v \in {"index", "part_000"} :
        \E data \in {Obj(Undefined, Undefined, Undefined),
                      Obj(Str(<<"a">>), Num(3), Str(<<"center">>)),
                      NotObj("undefined"), NotObj("null"),
                      NotObj("number"), NotObj("string")} :
            constructor(v, data)

FnSpec == FnInit /\ [][FnNext]_vars

(***************************************************************************)
(* The data setter, assigned on its own                                    *)
(***************************************************************************)
\* this.data = data
SetData(data) ==
    /\ constructed
    /\ setData(data)
    /\ last' = Call("set data", data)
    /\ UNCHANGED <<variant, constructed, _CSS, settingsButtons>>

\* Records assigned to the setter: partial ones that omit text, and one that
\* carries it.
SetDataArgs ==
    {Obj(Undefined, Num(3), Undefined),
     Obj(Undefined, Undefined, Str(<<"center">>)),
     Obj(Undefined, Num(2), Str(<<"right">>)),
     Obj(Str(<<"b", "&">>), Num(3), Undefined)}

SetterNext ==
    \/ \E data \in SetDataArgs : SetData(data)
    \/ Attach
    \/ \E q \in UserText : UserEdit(q)

SetterSpec == Init /\ [][SetterNext]_vars

(***************************************************************************)
(* Claims                                                                  *)
(***************************************************************************)
IsObject(data) == data.kind = "object"

\* C1: in every state reached by construction and any setLevel, setAlign,
\* onPaste and merge calls, the record the component holds (_data) has a
\* level that is a registry level number and (index.js) an align that is a
\* registry align id.
C1_DataInRegistries ==
    constructed =>
        /\ _data.level \in LevelNumbers(variant)
        /\ HasAlign(variant) => _data.align \in AlignIds

\* C2: normalizeData returns a level of the level registry; when raw.level
\* does not parse to a registry level number the returned level is the
\* default level id.
C2_LevelInRegistry ==
    (last.op = "normalizeData" /\ ~last.threw) =>
        /\ last.ret.level \in LevelNumbers(variant)
        /\ parseInt(last.arg.level) \notin LevelNumbers(variant)
               => last.ret.level = Num(defaultLevel(variant).number)

\* C3: normalizeData is idempotent: normalizing what normalizeData returned
\* gives the same record, field by field.
C3_Idempotent ==
    (last.op = "normalizeData" /\ ~last.threw) =>
        LET once  == last.ret
            twice == normalizeData(variant, once)
        IN  /\ twice.text = once.text
            /\ twice.level = once.level
            /\ twice.align = once.align

\* C4: merge(B) on a block whose state is A leaves the displayed and the
\* saved text equal to A.text followed by B.text, and level and align equal
\* to A's, attached or not (B a record with text).
C4_Merge ==
    [][ (last'.op = "merge" /\ last'.arg.text.t = "string") =>
          LET A == save(render)
              B == last'.arg
          IN  /\ _element'.innerHTML = A.text.s \o B.text.s
              /\ save(render)'.text = Str(A.text.s \o B.text.s)
              /\ save(render)'.level = A.level
              /\ save(render)'.align = A.align ]_vars

\* C4 witness: a detached block at a level other than B's has been merged
\* with a B that carries text, a level and an align.
C4_Witness ==
    /\ last.op = "merge"
    /\ ~Attached
    /\ last.arg = Obj(Str(<<"a">>), Num(4), Str(<<"right">>))
    /\ _element.innerHTML = <<"a", "a">>
    /\ save(render).level = Num(3)

\* The record the constructor was given, for the claims about construction
\* with a record of index.js whose level and align are registry ids.
ConstructedFrom(data) ==
    /\ last.op = "constructor"
    /\ constructed
    /\ last.arg = data

RegistryRecord(data) ==
    /\ IsObject(data)
    /\ data.text.t = "string"
    /\ data.level \in LevelNumbers(variant)
    /\ data.align \in AlignIds

\* C5 as stated: constructing the block (index.js) with a record d whose
\* level and align are registry ids and calling save(render()) returns
\* exactly {text: d.text, level: d.level, align: d.align}.
C5_RoundTripExact ==
    (variant = "index" /\ ConstructedFrom(last.arg) /\ RegistryRecord(last.arg))
        => save(render) = last.arg

\* C5 amended: save(render()) returns d.level, d.align and d.text as
\* innerHTML serializes it: d.text itself when it is serialized markup, and
\* with a bare "&" written "&amp;" otherwise.
C5_RoundTrip ==
    (variant = "index" /\ ConstructedFrom(last.arg) /\ RegistryRecord(last.arg))
        => /\ save(render).level = last.arg.level
           /\ save(render).align = last.arg.align
           /\ save(render).text.t = "string"
           /\ Len(save(render).text.s) = Len(last.arg.text.s)
           /\ \A i \in 1..Len(last.arg.text.s) :
                  save(render).text.s[i] =
                      IF last.arg.text.s[i] = "&" THEN "&amp;"
                      ELSE last.arg.text.s[i]

\* C5 witness: the block was built from {text: "a&", level: 3, align:
\* "center"} and save(render()) returns {text: "a&amp;", level: 3, align:
\* "center"}.
C5_Witness ==
    /\ variant = "index"
    /\ ConstructedFrom(Obj(Str(<<"a", "&">>), Num(3), Str(<<"center">>)))
    /\ save(render) = Obj(Str(<<"a", "&amp;">>), Num(3), Str(<<"center">>))

\* Text as another block exports it on conversion: markup in the form
\* innerHTML returns.
ExportedText(text) ==
    text.t = "string" /\ \A i \in 1..Len(text.s) : text.s[i] # "&"

\* C6: constructing the block (index.js) with the empty record, or with a
\* record that carries only text as on conversion import, makes
\* save(render()) return level 2 (the default), align "left" and the
\* supplied text or ""; validate of the empty record's result is false.
C6_Defaults ==
    /\ (variant = "index"
          /\ ConstructedFrom(Obj(Undefined, Undefined, Undefined)))
        => /\ save(render) = Obj(Str(<<>>), Num(2), Str(<<"left">>))
           /\ ~validateThrows(save(render))
           /\ ~validate(save(render))
    /\ (variant = "index"
          /\ ConstructedFrom(Obj(last.arg.text, Undefined, Undefined))
          /\ ExportedText(last.arg.text))
        => save(render) = Obj(last.arg.text, Num(2), Str(<<"left">>))

\* C6 witness: the block was built from {} and save(render()) returns
\* {text: "", level: 2, align: "left"}, which validate rejects.
C6_Witness ==
    /\ variant = "index"
    /\ ConstructedFrom(Obj(Undefined, Undefined, Undefined))
    /\ save(render) = Obj(Str(<<>>), Num(2), Str(<<"left">>))
    /\ ~validate(save(render))

TagDigit(tagName) ==
    CASE tagName = "H1" -> 1
      [] tagName = "H2" -> 2
      [] tagName = "H3" -> 3
      [] tagName = "H4" -> 4

\* C7: after onPaste with an element whose tagName is declared in
\* pasteConfig the current level is the digit of the tag and the text is the
\* pasted inner content; any other tagName gives level 2.
C7_PasteMapping ==
    last.op = "onPaste" =>
        /\ last.tagName \in pasteConfig(variant)
               => /\ currentLevel(variant, _data).number = TagDigit(last.tagName)
                  /\ save(render).level = Num(TagDigit(last.tagName))
        /\ last.tagName \notin pasteConfig(variant)
               => save(render).level = Num(2)
        /\ last.arg.text.t = "string"
               => /\ _element.innerHTML = last.arg.text.s
                  /\ save(render).text = last.arg.text

\* C7 witness: an H3 element holding "a" was pasted; the level is 3 and the
\* text "a".
C7_Witness ==
    /\ last.op = "onPaste"
    /\ last.tagName = "H3"
    /\ save(render) .level = Num(3)
    /\ _element.innerHTML = <<"a">>
    /\ _element.tag = "H3"

IsLevelButton(button) == button.level # Undefined

IsAlignButton(button) == button.align # Undefined

ActiveLevelButtons(buttons, panel) ==
    {i \in 1..Len(buttons) :
        IsLevelButton(buttons[i]) /\ buttons[i].panel = panel /\ buttons[i].active}

\* C8: after renderSettings and then setLevel(k), k a level of the registry,
\* exactly one level button of the panel is highlighted, the one whose level
\* id is k, and the alignment buttons are highlighted as before.
C8_Highlight ==
    [][ (last'.op = "setLevel" /\ settingsButtons # <<>>
            /\ last'.arg.level \in LevelNumbers(variant)) =>
          /\ Len(settingsButtons') = Len(settingsButtons)
          /\ \A i \in 1..Len(settingsButtons) :
                LET panel == settingsButtons[i].panel
                IN  /\ Cardinality(ActiveLevelButtons(settingsButtons', panel)) = 1
                    /\ \A j \in ActiveLevelButtons(settingsButtons', panel) :
                          settingsButtons'[j].level
                              = Str(ToString(last'.arg.level))
                    /\ IsAlignButton(settingsButtons[i])
                          => settingsButtons'[i] = settingsButtons[i] ]_vars

\* C8 witness: with a panel rendered, setLevel(3) has run; the level button 3
\* alone is highlighted and the alignment button "center" still is.
C8_Witness ==
    /\ last.op = "setLevel"
    /\ last.arg.level = Num(3)
    /\ settingsButtons # <<>>
    /\ Cardinality(ActiveLevelButtons(settingsButtons, 1)) = 1
    /\ \E i \in 1..Len(settingsButtons) :
          /\ settingsButtons[i].level = Str(<<"3">>)
          /\ settingsButtons[i].active
    /\ \E i \in 1..Len(settingsButtons) :
          /\ settingsButtons[i].align = Str(<<"center">>)
          /\ settingsButtons[i].active

\* C9: no call of the host raises: the constructor completes for data that
\* is not a record, and validate completes for records that lack fields.
C9_NoThrow == ~last.threw

\* C10: validate returns false exactly when the text is empty once leading
\* and trailing white space is removed, that is when it holds white space
\* only, whatever the level and align of the record.
C10_Validate ==
    (last.op = "validate" /\ IsObject(last.arg) /\ last.arg.text.t = "string")
        => /\ ~last.threw
           /\ last.ok = (\E i \in 1..Len(last.arg.text.s) :
                            ~IsSpace(last.arg.text.s[i]))

\* C10 witness: validate accepted a record with text " a ", level 999 and
\* align "bogus".
C10_Witness ==
    /\ last.op = "validate"
    /\ last.arg = Obj(Str(<<" ", "a", " ">>), Num(999), Str(<<"bogus">>))
    /\ last.ok

\* C11: save(toolsContent) returns the text of the element passed in and the
\* level and align selected in the component's state, whatever the tag and
\* style of that element, and changes neither _data nor the live element.
C11_SaveFromState ==
    [][ last'.op = "save" =>
          /\ last'.ret.text = Str(last'.toolsContent.innerHTML)
          /\ last'.ret.level = Num(currentLevel(variant, _data).number)
          /\ last'.ret.align = IF HasAlign(variant)
                               THEN Str(<<currentAlign(_data).align>>)
                               ELSE Undefined
          /\ last'.ret.level = save(render).level
          /\ last'.ret.align = save(render).align
          /\ _data' = _data
          /\ _element' = _element
          /\ parent' = parent ]_vars

\* C11 witness: save was handed a P element styled "right" holding "x" while
\* the block is an H3 aligned "center"; it returned the text "x" with level 3
\* and align "center".
C11_Witness ==
    /\ last.op = "save"
    /\ last.toolsContent = ForeignElement
    /\ _element.tag = "H3"
    /\ last.ret = Obj(Str(<<"x">>), Num(3), Str(<<"center">>))

\* C12: in every reachable state the element render() returns has the tag
\* the level registry gives to the level save() reports, also after setLevel
\* or onPaste on an element that is not attached.
C12_TagMatchesLevel ==
    constructed =>
        \E i \in 1..Len(levels(variant)) :
            /\ Num(levels(variant)[i].number) = save(render).level
            /\ render.tag = levels(variant)[i].tag

\* C13: in every reachable state of index.js the text-align style of the
\* live element is the align id save() reports.
C13_StyleMatchesAlign ==
    (constructed /\ variant = "index") =>
        Str(<<render.textAlign>>) = save(render).align

ActiveAlignButtons(buttons, panel) ==
    {i \in 1..Len(buttons) :
        IsAlignButton(buttons[i]) /\ buttons[i].panel = panel /\ buttons[i].active}

\* C14: in every state after a renderSettings call each rendered panel has
\* exactly one highlighted level button and (index.js) exactly one
\* highlighted alignment button, and they carry the level and the align
\* save() reports.
C14_OneHighlightEach ==
    \A panel \in Panels :
        /\ Cardinality(ActiveLevelButtons(settingsButtons, panel)) = 1
        /\ \A i \in ActiveLevelButtons(settingsButtons, panel) :
               parseInt(settingsButtons[i].level) = save(render).level
        /\ HasAlign(variant) =>
               /\ Cardinality(ActiveAlignButtons(settingsButtons, panel)) = 1
               /\ \A i \in ActiveAlignButtons(settingsButtons, panel) :
                      settingsButtons[i].align = save(render).align

\* C15: in part_000 (levels 2, 3, 4) a block constructed without a level, or
\* with a level that does not parse, renders an H2 element and save()
\* reports level 2, the fallback of onPaste.
C15_DefaultIsH2 ==
    (variant = "part_000" /\ last.op = "constructor" /\ constructed
        /\ parseInt(last.arg.level) = NaN)
        => /\ render.tag = "H2"
           /\ save(render).level = Num(2)
           /\ save(render).level = Num(pasteLevel(variant, "P"))

\* C16: setLevel(k), k a registry level, makes save report level k and leaves
\* the displayed text and the reported align as they were; setAlign(a), a a
\* registry align, makes save report align a and leaves the displayed text
\* and the reported level as they were; attached or detached.
C16_Frame ==
    [][ /\ (last'.op = "setLevel" /\ last'.arg.level \in LevelNumbers(variant))
            => /\ save(render)'.level = last'.arg.level
               /\ render'.innerHTML = render.innerHTML
               /\ save(render)'.text = save(render).text
               /\ save(render)'.align = save(render).align
        /\ (last'.op = "setAlign" /\ last'.arg.align \in AlignIds)
            => /\ save(render)'.align = last'.arg.align
               /\ render'.innerHTML = render.innerHTML
               /\ save(render)'.text = save(render).text
               /\ save(render)'.level = save(render).level ]_vars

\* C16 witness: setLevel(3) ran on an attached block (index.js) showing
\* "a&amp;" aligned "center"; the element was replaced by an H3 that shows
\* "a&amp;", and save reports level 3 and align "center".
C16_Witness ==
    /\ last.op = "setLevel"
    /\ last.arg.level = Num(3)
    /\ Attached
    /\ render.tag = "H3"
    /\ save(render) = Obj(Str(<<"a", "&amp;">>), Num(3), Str(<<"center">>))

\* C17: assigning to the data setter a record that omits text leaves the
\* displayed text of the live element as it was, attached (the element is
\* replaced) or detached; a record that carries text overwrites it.
C17_TextKept ==
    [][ last'.op = "set data" =>
          /\ last'.arg.text = Undefined
                 => render'.innerHTML = render.innerHTML
          /\ last'.arg.text.t = "string"
                 => render'.innerHTML = innerHTML(last'.arg.text.s) ]_vars

\* C17 witness: {level: 3} was assigned while the block was attached; the
\* element was replaced by an H3 that still shows "a&amp;".
C17_Witness ==
    /\ last.op = "set data"
    /\ last.arg = Obj(Undefined, Num(3), Undefined)
    /\ Attached
    /\ render.id = 2
    /\ render.tag = "H3"
    /\ render.innerHTML = <<"a", "&amp;">>

\* The ids the block's elements take.
BlockIds == {1, 2}

\* C18: when setLevel, setAlign, onPaste or merge runs on an attached block,
\* the element render() returns afterwards sits in the same parent at the
\* old element's position, the old element is attached no longer, and the
\* parent holds exactly one element of the block.
C18_AttachmentKept ==
    [][ (last'.op \in {"setLevel", "setAlign", "onPaste", "merge"} /\ Attached) =>
          /\ Len(parent') = Len(parent)
          /\ \A i \in 1..Len(parent) :
                 IF parent[i] = render.id THEN parent'[i] = render'.id
                 ELSE parent'[i] = parent[i]
          /\ render'.id # render.id
          /\ \A i \in 1..Len(parent') : parent'[i] # render.id
          /\ Cardinality({i \in 1..Len(parent') : parent'[i] \in BlockIds}) = 1 ]_vars

\* C18 witness: the attached block was replaced on onPaste of an H3: the new
\* element (id 2) is the first child, before the sibling, and the old one
\* (id 1) is gone.
C18_Witness ==
    /\ last.op = "onPaste"
    /\ last.tagName = "H3"
    /\ render.id = 2
    /\ render.tag = "H3"
    /\ parent = <<2, Sibling>>

\* C19: in index.js onPaste overwrites the three fields: whatever align
\* save() reported before, afterwards it reports "left", the level mapped
\* from the pasted tag and the pasted inner content as text.
C19_PasteOverwrites ==
    [][ (last'.op = "onPaste" /\ variant = "index") =>
          /\ save(render)'.align = Str(<<"left">>)
          /\ save(render)'.level = Num(pasteLevel(variant, last'.tagName))
          /\ last'.arg.text.t = "string"
                 => save(render)'.text = last'.arg.text ]_vars

\* C19 witness: an H3 holding "a" was pasted into an attached block built
\* with align "center"; save reports {text: "a", level: 3, align: "left"}
\* and the new element is styled "left".
C19_Witness ==
    /\ variant = "index"
    /\ last.op = "onPaste"
    /\ last.tagName = "H3"
    /\ _CSS = Str(<<"center">>)
    /\ Attached
    /\ render.textAlign = "left"
    /\ save(render) = Obj(Str(<<"a">>), Num(3), Str(<<"left">>))

====
